---- MODULE Spec2Model ----
(***************************************************************************)
(* Model of 0x02-redis_basic/exercise.py: the Cache class, a facade over a *)
(* Redis database, and its two decorators count_calls and call_history.    *)
(*                                                                         *)
(* Python str values are sequences of code points, bytes values are        *)
(* sequences of integers in 0..255.  The Redis database is a function from *)
(* the keys present (bytes) to a value that is a string or a list.         *)
(***************************************************************************)
EXTENDS Integers, Sequences, FiniteSets, TLC

(***************************************************************************)
(* Bounds of the model.                                                    *)
(***************************************************************************)
\* number of distinct identifiers uuid4() can draw; each is drawn at most
\* once, so it also bounds the number of store calls of a behaviour
NumUUIDs == 2
\* number of clients that hold a Cache over the same database
NumClients == 2
\* number of store calls that may fail between two flushes of the database
MaxFailed == 2

Clients == 1..NumClients
\* the clients of the sequential specification
SeqClients == {1}

(***************************************************************************)
(* Text and bytes helpers.                                                 *)
(***************************************************************************)
RECURSIVE Concat(_)
Concat(ss) == IF ss = <<>> THEN <<>> ELSE Head(ss) \o Concat(Tail(ss))

Digit(d) == 48 + d
IsDigit(b) == b >= 48 /\ b <= 57

\* decimal digits of a natural number, most significant first
RECURSIVE NatToDecimal(_)
NatToDecimal(n) ==
    IF n < 10 THEN <<Digit(n)>> ELSE NatToDecimal(n \div 10) \o <<Digit(n % 10)>>

\* repr(n) / str(n) of a Python int, and the reply format of Redis integers
IntToDecimal(n) == IF n < 0 THEN <<45>> \o NatToDecimal(0 - n) ELSE NatToDecimal(n)

\* one lower-case hexadecimal digit
HexDigit(h) == IF h < 10 THEN 48 + h ELSE 87 + h
\* the two hexadecimal digits of a byte
Hex2(b) == <<HexDigit(b \div 16), HexDigit(b % 16)>>
Hex4(c) == Hex2(c \div 256) \o Hex2(c % 256)

\* str.encode('utf-8') of one code point; the surrogates U+D800..U+DFFF cannot
\* be encoded
CanEncode(cps) == \A i \in 1..Len(cps) : ~(cps[i] >= 55296 /\ cps[i] <= 57343)
Utf8EncodeCp(c) ==
    IF c < 128 THEN <<c>>
    ELSE IF c < 2048 THEN <<192 + (c \div 64), 128 + (c % 64)>>
    ELSE IF c < 65536 THEN
        <<224 + (c \div 4096), 128 + ((c \div 64) % 64), 128 + (c % 64)>>
    ELSE <<240 + (c \div 262144), 128 + ((c \div 4096) % 64),
           128 + ((c \div 64) % 64), 128 + (c % 64)>>

\* ASCII text is its own encoding
RECURSIVE Utf8Encode(_)
Utf8Encode(cps) ==
    IF \A i \in 1..Len(cps) : cps[i] < 128 THEN cps
    ELSE Utf8EncodeCp(Head(cps)) \o Utf8Encode(Tail(cps))

IsCont(b) == b >= 128 /\ b <= 191

\* bytes.decode('utf-8'), strict: [ok |-> TRUE, v |-> code points] or
\* [ok |-> FALSE] for a UnicodeDecodeError
RECURSIVE Utf8DecodeFrom(_, _, _)
Utf8DecodeFrom(bs, i, acc) ==
    IF i > Len(bs) THEN [ok |-> TRUE, v |-> acc]
    ELSE LET b == bs[i] IN
        IF b < 128 THEN Utf8DecodeFrom(bs, i + 1, Append(acc, b))
        ELSE IF b >= 194 /\ b <= 223 THEN
            IF i + 1 <= Len(bs) /\ IsCont(bs[i + 1])
            THEN Utf8DecodeFrom(bs, i + 2,
                     Append(acc, (b - 192) * 64 + (bs[i + 1] - 128)))
            ELSE [ok |-> FALSE]
        ELSE IF b >= 224 /\ b <= 239 THEN
            IF i + 2 <= Len(bs) /\ IsCont(bs[i + 1]) /\ IsCont(bs[i + 2])
            THEN LET c == (b - 224) * 4096 + (bs[i + 1] - 128) * 64
                          + (bs[i + 2] - 128) IN
                 IF c >= 2048 /\ ~(c >= 55296 /\ c <= 57343)
                 THEN Utf8DecodeFrom(bs, i + 3, Append(acc, c))
                 ELSE [ok |-> FALSE]
            ELSE [ok |-> FALSE]
        ELSE IF b >= 240 /\ b <= 244 THEN
            IF i + 3 <= Len(bs) /\ IsCont(bs[i + 1]) /\ IsCont(bs[i + 2])
               /\ IsCont(bs[i + 3])
            THEN LET c == (b - 240) * 262144 + (bs[i + 1] - 128) * 4096
                          + (bs[i + 2] - 128) * 64 + (bs[i + 3] - 128) IN
                 IF c >= 65536 /\ c <= 1114111
                 THEN Utf8DecodeFrom(bs, i + 4, Append(acc, c))
                 ELSE [ok |-> FALSE]
            ELSE [ok |-> FALSE]
        ELSE [ok |-> FALSE]

Utf8Decode(bs) == Utf8DecodeFrom(bs, 1, <<>>)

(***************************************************************************)
(* int(x) of a bytes object x, base 10: surrounding ASCII whitespace is    *)
(* stripped, one sign is allowed, and the digits may be separated by       *)
(* single underscores.  [ok |-> TRUE, v |-> n] or [ok |-> FALSE] for a     *)
(* ValueError.                                                             *)
(***************************************************************************)
IsSpace(b) == b = 32 \/ (b >= 9 /\ b <= 13)

RECURSIVE LStrip(_)
LStrip(bs) == IF bs # <<>> /\ IsSpace(Head(bs)) THEN LStrip(Tail(bs)) ELSE bs

RECURSIVE RStrip(_)
RStrip(bs) ==
    IF bs # <<>> /\ IsSpace(bs[Len(bs)])
    THEN RStrip(SubSeq(bs, 1, Len(bs) - 1)) ELSE bs

\* scan the digits of bs from position i; prev is "start", "digit" or
\* "underscore", acc the value read so far
RECURSIVE ScanDigits(_, _, _, _)
ScanDigits(bs, i, prev, acc) ==
    IF i > Len(bs) THEN
        IF prev = "digit" THEN [ok |-> TRUE, v |-> acc] ELSE [ok |-> FALSE]
    ELSE IF IsDigit(bs[i]) THEN ScanDigits(bs, i + 1, "digit", acc * 10 + (bs[i] - 48))
    ELSE IF bs[i] = 95 /\ prev = "digit" THEN ScanDigits(bs, i + 1, "underscore", acc)
    ELSE [ok |-> FALSE]

PyInt(x) ==
    LET s == RStrip(LStrip(x))
        neg == s # <<>> /\ Head(s) = 45
        signed == s # <<>> /\ (Head(s) = 45 \/ Head(s) = 43)
        r == ScanDigits(IF signed THEN Tail(s) ELSE s, 1, "start", 0)
    IN IF ~r.ok THEN [ok |-> FALSE]
       ELSE [ok |-> TRUE, v |-> IF neg THEN 0 - r.v ELSE r.v]

(***************************************************************************)
(* Python values: [t |-> "str", v |-> code points], [t |-> "bytes",        *)
(* v |-> bytes], [t |-> "int", v |-> <<n>>], [t |-> "float", v |-> <<m>>]  *)
(* for the float m/10, None, and a raised exception (t is its class).      *)
(***************************************************************************)
PyStrVal(s) == [t |-> "str", v |-> s]
PyBytesVal(b) == [t |-> "bytes", v |-> b]
PyIntVal(n) == [t |-> "int", v |-> <<n>>]
PyFloatVal(m) == [t |-> "float", v |-> <<m>>]
PyNone == [t |-> "None", v |-> <<>>]
Raised(exc) == [t |-> exc, v |-> <<>>]
Exceptions == {"ValueError", "UnicodeDecodeError", "ResponseError", "ConnectionError"}
IsRaised(x) == x.t \in Exceptions

Abs(n) == IF n < 0 THEN 0 - n ELSE n

\* repr of the float m/10 (one fractional digit, magnitude below 1e16)
FloatRepr(m) ==
    (IF m < 0 THEN <<45>> ELSE <<>>)
    \o NatToDecimal(Abs(m) \div 10) \o <<46, Digit(Abs(m) % 10)>>

Contains(s, c) == \E i \in 1..Len(s) : s[i] = c
\* the quote repr puts around a str or bytes: ' unless the text holds a '
\* and no "
QuoteOf(s) == IF Contains(s, 39) /\ ~Contains(s, 34) THEN 34 ELSE 39

\* repr of one character of a str; code points above Latin-1 are taken as
\* printable
ReprCp(c, q) ==
    IF c = 92 THEN <<92, 92>>
    ELSE IF c = q THEN <<92, q>>
    ELSE IF c = 9 THEN <<92, 116>>
    ELSE IF c = 10 THEN <<92, 110>>
    ELSE IF c = 13 THEN <<92, 114>>
    ELSE IF c < 32 \/ (c >= 127 /\ c <= 160) \/ c = 173 THEN <<92, 120>> \o Hex2(c)
    ELSE IF c >= 55296 /\ c <= 57343 THEN <<92, 117>> \o Hex4(c)
    ELSE <<c>>

\* repr of one byte of a bytes object
ReprByte(b, q) ==
    IF b = 92 THEN <<92, 92>>
    ELSE IF b = q THEN <<92, q>>
    ELSE IF b = 9 THEN <<92, 116>>
    ELSE IF b = 10 THEN <<92, 110>>
    ELSE IF b = 13 THEN <<92, 114>>
    ELSE IF b < 32 \/ b >= 127 THEN <<92, 120>> \o Hex2(b)
    ELSE <<b>>

PyRepr(x) ==
    IF x.t = "str" THEN
        LET q == QuoteOf(x.v) IN
        <<q>> \o Concat([i \in 1..Len(x.v) |-> ReprCp(x.v[i], q)]) \o <<q>>
    ELSE IF x.t = "bytes" THEN
        LET q == QuoteOf(x.v) IN
        <<98, q>> \o Concat([i \in 1..Len(x.v) |-> ReprByte(x.v[i], q)]) \o <<q>>
    ELSE IF x.t = "int" THEN IntToDecimal(x.v[1])
    ELSE FloatRepr(x.v[1])

\* str(x): the text itself for a str, repr(x) otherwise
PyStr(x) == IF x.t = "str" THEN x.v ELSE PyRepr(x)

\* str(args) of a tuple: "()", "(a,)", "(a, b)"
RECURSIVE JoinRepr(_)
JoinRepr(xs) ==
    IF Len(xs) = 1 THEN PyRepr(xs[1])
    ELSE PyRepr(Head(xs)) \o <<44, 32>> \o JoinRepr(Tail(xs))

StrTuple(xs) ==
    IF xs = <<>> THEN <<40, 41>>
    ELSE IF Len(xs) = 1 THEN <<40>> \o PyRepr(xs[1]) \o <<44, 41>>
    ELSE <<40>> \o JoinRepr(xs) \o <<41>>

(***************************************************************************)
(* The Redis client and server.  A command argument is encoded by the      *)
(* client: bytes as they are, int and float by repr, str as UTF-8.         *)
(***************************************************************************)
RedisEncode(x) ==
    IF x.t = "bytes" THEN x.v
    ELSE IF x.t = "str" THEN Utf8Encode(x.v)
    ELSE PyRepr(x)

\* whether the client can encode x (a str with a lone surrogate cannot be)
Encodable(x) == x.t = "str" => CanEncode(x.v)

RString(b) == [type |-> "string", val |-> b]
RList(items) == [type |-> "list", val |-> items]

EmptyDb == [k \in {} |-> RString(<<>>)]

Put(d, k, val) == [x \in (DOMAIN d) \cup {k} |-> IF x = k THEN val ELSE d[x]]

\* replies carry ok = FALSE for an error reply of the server
Reply(ok, d, val) == [ok |-> ok, db |-> d, val |-> val]

\* FLUSHDB
RedisFlushdb(d) == Reply(TRUE, EmptyDb, <<>>)

\* SET key value
RedisSet(d, k, b) == Reply(TRUE, Put(d, k, RString(b)), <<>>)

\* GET key: val is <<>> for nil and <<bytes>> for a value; WRONGTYPE when
\* the key holds a list
RedisGet(d, k) ==
    IF k \notin DOMAIN d THEN Reply(TRUE, d, <<>>)
    ELSE IF d[k].type = "string" THEN Reply(TRUE, d, <<d[k].val>>)
    ELSE Reply(FALSE, d, <<>>)

\* the integer a Redis string holds: a canonical decimal numeral only
RedisParseInt(b) ==
    LET neg == b # <<>> /\ Head(b) = 45
        r == ScanDigits(IF neg THEN Tail(b) ELSE b, 1, "start", 0)
        n == IF neg THEN 0 - r.v ELSE r.v
    IN IF r.ok /\ IntToDecimal(n) = b THEN [ok |-> TRUE, v |-> n]
       ELSE [ok |-> FALSE]

\* mutant of RedisIncr: DECR
RedisDecr(d, k) ==
    IF k \notin DOMAIN d THEN Reply(TRUE, Put(d, k, RString(IntToDecimal(0 - 1))), 0 - 1)
    ELSE IF d[k].type # "string" THEN Reply(FALSE, d, 0)
    ELSE LET r == RedisParseInt(d[k].val) IN
         IF r.ok THEN Reply(TRUE, Put(d, k, RString(IntToDecimal(r.v - 1))), r.v - 1)
         ELSE Reply(FALSE, d, 0)

\* INCR key: an absent key counts as 0
RedisIncr(d, k) ==
    IF k \notin DOMAIN d THEN Reply(TRUE, Put(d, k, RString(IntToDecimal(1))), 1)
    ELSE IF d[k].type # "string" THEN Reply(FALSE, d, 0)
    ELSE LET r == RedisParseInt(d[k].val) IN
         IF r.ok THEN Reply(TRUE, Put(d, k, RString(IntToDecimal(r.v + 1))), r.v + 1)
         ELSE Reply(FALSE, d, 0)

\* mutant of RedisRpush: LPUSH, the new entry becomes the first one
RedisLpush(d, k, b) ==
    IF k \notin DOMAIN d THEN Reply(TRUE, Put(d, k, RList(<<b>>)), 1)
    ELSE IF d[k].type # "list" THEN Reply(FALSE, d, 0)
    ELSE Reply(TRUE, Put(d, k, RList(<<b>> \o d[k].val)), Len(d[k].val) + 1)

\* RPUSH key value
RedisRpush(d, k, b) ==
    IF k \notin DOMAIN d THEN Reply(TRUE, Put(d, k, RList(<<b>>)), 1)
    ELSE IF d[k].type # "list" THEN Reply(FALSE, d, 0)
    ELSE Reply(TRUE, Put(d, k, RList(Append(d[k].val, b))), Len(d[k].val) + 1)

(***************************************************************************)
(* Key names.                                                              *)
(***************************************************************************)
\* method.__qualname__ of the wrapped method: "Cache.store"
QualName == <<67, 97, 99, 104, 101, 46, 115, 116, 111, 114, 101>>
\* f"{method.__qualname__}:inputs"
InputKey == QualName \o <<58, 105, 110, 112, 117, 116, 115>>
\* f"{method.__qualname__}:outputs"
OutputKey == QualName \o <<58, 111, 117, 116, 112, 117, 116, 115>>

\* uuid4() draws one of NumUUIDs identifiers, which differ in their last
\* byte; two draws never give the same identifier
UUIDs == 1..NumUUIDs
Zeros(n) == [i \in 1..n |-> 48]
\* str(u): 8-4-4-4-12 hexadecimal digits, version 4, variant 8
UuidStr(u) ==
    Zeros(8) \o <<45>> \o Zeros(4) \o <<45, 52>> \o Zeros(3) \o <<45, 56>>
    \o Zeros(3) \o <<45>> \o Zeros(10) \o Hex2(u)

\* a key that no store call generates: "k"
OtherKey == <<107>>

\* the key arguments of get, get_str and get_int
GetKeys == {UuidStr(u) : u \in UUIDs} \cup {QualName, InputKey, OutputKey, OtherKey}

(***************************************************************************)
(* The arguments of the calls.                                             *)
(***************************************************************************)
\* data of a store call: "e-acute", b"\xff", -12, 0, 7, 1.5
Values ==
    { PyStrVal(<<233>>), PyBytesVal(<<255>>),
      PyIntVal(0 - 12), PyIntVal(0), PyIntVal(7), PyFloatVal(15) }
\* data of a store call that passes it by keyword, store(data=v): " 7"
KwValues == { PyStrVal(<<32, 55>>) }

\* the fn argument of get: None, the lambda of get_str, the lambda of get_int
Decoders == {"None", "utf8", "int"}

VARIABLES
    db,       \* the Redis database: key (bytes) -> string or list
    uuids,    \* the identifiers uuid4() has drawn
    pc,       \* per client: "idle", or the next step of its store call
    args,     \* per client: positional arguments of its store call
    kwargs,   \* per client: keyword arguments of its store call (data=v)
    key,      \* per client: local variable key of store
    ret,      \* per client: its last call and what the call returned or raised
    calls,    \* the store calls that returned since the database was flushed
    failed,   \* the store calls a failed command ended since the last flush
    flushedMidCall  \* the last flush came while a store call was in progress

vars == <<db, uuids, pc, args, kwargs, key, ret, calls, failed, flushedMidCall>>

Result(op, k, fn, val) == [op |-> op, key |-> k, fn |-> fn, val |-> val]

\* int.from_bytes(x, 'big')
RECURSIVE FromBytes(_, _)
FromBytes(x, acc) == IF x = <<>> THEN acc ELSE FromBytes(Tail(x), acc * 256 + Head(x))

\* mutant of ApplyFn: get_str decodes as Latin-1, one character per byte
ApplyFnLatin1(fn, data) ==
    IF fn = "utf8" THEN PyStrVal(data)
    ELSE
        LET r == PyInt(data) IN
        IF r.ok THEN PyIntVal(r.v) ELSE Raised("ValueError")

\* mutant of ApplyFn: get_int reads the bytes as a big-endian binary number
ApplyFnFromBytes(fn, data) ==
    IF fn = "utf8" THEN
        LET r == Utf8Decode(data) IN
        IF r.ok THEN PyStrVal(r.v) ELSE Raised("UnicodeDecodeError")
    ELSE PyIntVal(FromBytes(data, 0))

\* the lambdas get_str and get_int pass to get
ApplyFn(fn, data) ==
    IF fn = "utf8" THEN
        LET r == Utf8Decode(data) IN
        IF r.ok THEN PyStrVal(r.v) ELSE Raised("UnicodeDecodeError")
    ELSE
        LET r == PyInt(data) IN
        IF r.ok THEN PyIntVal(r.v) ELSE Raised("ValueError")

\* mutant of PyGet: the decoder is applied before the test for None
PyGetDecodeFirst(d, k, fn) ==
    LET r == RedisGet(d, Utf8Encode(k)) IN
    IF ~r.ok THEN Raised("ResponseError")
    ELSE IF fn # "None" THEN
        IF r.val = <<>> THEN Raised(IF fn = "utf8" THEN "AttributeError" ELSE "TypeError")
        ELSE ApplyFn(fn, r.val[1])
    ELSE IF r.val = <<>> THEN PyNone
    ELSE PyBytesVal(r.val[1])

\* mutant of PyGet: an absent key reads as empty bytes
PyGetDefault(d, k, fn) ==
    LET r == RedisGet(d, Utf8Encode(k))
        data == IF r.val = <<>> THEN <<>> ELSE r.val[1]
    IN IF ~r.ok THEN Raised("ResponseError")
       ELSE IF fn # "None" THEN ApplyFn(fn, data)
       ELSE PyBytesVal(data)

\* Cache.get(key, fn) on database d
PyGet(d, k, fn) ==
    LET r == RedisGet(d, Utf8Encode(k)) IN
    IF ~r.ok THEN Raised("ResponseError")
    ELSE IF r.val = <<>> THEN PyNone
    ELSE IF fn # "None" THEN ApplyFn(fn, r.val[1])
    ELSE PyBytesVal(r.val[1])

Init ==
    /\ db = EmptyDb
    /\ uuids = {}
    /\ pc = [c \in Clients |-> "idle"]
    /\ args = [c \in Clients |-> <<>>]
    /\ kwargs = [c \in Clients |-> <<>>]
    /\ key = [c \in Clients |-> <<>>]
    /\ ret = [c \in Clients |-> Result("init", <<>>, "None", PyNone)]
    /\ calls = <<>>
    /\ failed = <<>>
    /\ flushedMidCall = FALSE

\* mutant of Initialize: the database is not flushed
InitializeNoFlush(c) ==
    /\ pc[c] = "idle"
    /\ calls' = <<>>
    /\ failed' = <<>>
    /\ flushedMidCall' = (\E d \in Clients : pc[d] # "idle")
    /\ ret' = [ret EXCEPT ![c] = Result("init", <<>>, "None", PyNone)]
    /\ UNCHANGED <<db, uuids, pc, args, kwargs, key>>

\* Cache.__init__: connect and FLUSHDB
Initialize(c) ==
    /\ pc[c] = "idle"
    /\ db' = RedisFlushdb(db).db
    /\ calls' = <<>>
    /\ failed' = <<>>
    /\ flushedMidCall' = (\E d \in Clients : pc[d] # "idle")
    /\ ret' = [ret EXCEPT ![c] = Result("init", <<>>, "None", PyNone)]
    /\ UNCHANGED <<uuids, pc, args, kwargs, key>>

\* a command of the store call of c failed: the exception reaches the caller
Raise(c, exc) ==
    /\ pc' = [pc EXCEPT ![c] = "idle"]
    /\ ret' = [ret EXCEPT ![c] = Result("store", <<>>, "None", Raised(exc))]

\* method.__name__ of the wrapped method: "store"
MethodName == <<115, 116, 111, 114, 101>>

\* mutant of StoreIncr: the counter is keyed by method.__name__
StoreIncrByName(c, a, kw) ==
    /\ pc[c] = "idle"
    /\ Cardinality(uuids) + Cardinality({d \in Clients : pc[d] \in {"rpush_in", "set"}})
         < NumUUIDs
    /\ db' = RedisIncr(db, Utf8Encode(MethodName)).db
    /\ pc' = [pc EXCEPT ![c] = "rpush_in"]
    /\ args' = [args EXCEPT ![c] = a]
    /\ kwargs' = [kwargs EXCEPT ![c] = kw]
    /\ UNCHANGED <<uuids, key, calls, ret, failed, flushedMidCall>>

\* mutant of StoreIncr: the counter is set to the length of the input log
\* plus one, SET key LLEN(input_key) + 1
StoreIncrFromLog(c, a, kw) ==
    /\ pc[c] = "idle"
    /\ Cardinality(uuids) + Cardinality({d \in Clients : pc[d] \in {"rpush_in", "set"}})
         < NumUUIDs
    /\ LET n == IF Utf8Encode(InputKey) \in DOMAIN db
                THEN Len(db[Utf8Encode(InputKey)].val) ELSE 0
       IN db' = RedisSet(db, Utf8Encode(QualName), IntToDecimal(n + 1)).db
    /\ pc' = [pc EXCEPT ![c] = "rpush_in"]
    /\ args' = [args EXCEPT ![c] = a]
    /\ kwargs' = [kwargs EXCEPT ![c] = kw]
    /\ UNCHANGED <<uuids, key, calls, ret, failed, flushedMidCall>>

\* store(*a, **kw) is called; count_calls.wrapper: self._redis.incr(key)
StoreIncr(c, a, kw) ==
    /\ pc[c] = "idle"
    /\ Cardinality(uuids) + Cardinality({d \in Clients : pc[d] \in {"rpush_in", "set"}})
         < NumUUIDs
    /\ LET r == RedisIncr(db, Utf8Encode(QualName)) IN
       /\ db' = r.db
       /\ IF r.ok
          THEN /\ pc' = [pc EXCEPT ![c] = "rpush_in"]
               /\ args' = [args EXCEPT ![c] = a]
               /\ kwargs' = [kwargs EXCEPT ![c] = kw]
               /\ UNCHANGED ret
          ELSE /\ Raise(c, "ResponseError")
               /\ UNCHANGED <<args, kwargs>>
    /\ UNCHANGED <<uuids, key, calls, failed, flushedMidCall>>

\* mutant of StoreRpushIn: the entry is str(args[0]), not str(args)
StoreRpushInData(c) ==
    /\ pc[c] = "rpush_in"
    /\ db' = RedisRpush(db, Utf8Encode(InputKey),
                        RedisEncode(PyStrVal(IF args[c] = <<>> THEN StrTuple(<<>>)
                                             ELSE PyStr(args[c][1])))).db
    /\ pc' = [pc EXCEPT ![c] = "set"]
    /\ UNCHANGED <<uuids, args, kwargs, key, calls, ret, failed, flushedMidCall>>

\* mutant of StoreRpushIn: the input is not appended before the call
StoreRpushInSkip(c) ==
    /\ pc[c] = "rpush_in"
    /\ pc' = [pc EXCEPT ![c] = "set"]
    /\ UNCHANGED <<db, uuids, args, kwargs, key, calls, ret, failed, flushedMidCall>>

\* mutant of StoreRpushIn: the input log is trimmed to its last entry
StoreRpushInTrim(c) ==
    /\ pc[c] = "rpush_in"
    /\ db' = Put(db, Utf8Encode(InputKey),
                 RList(<<RedisEncode(PyStrVal(StrTuple(args[c])))>>))
    /\ pc' = [pc EXCEPT ![c] = "set"]
    /\ UNCHANGED <<uuids, args, kwargs, key, calls, ret, failed, flushedMidCall>>

\* call_history.wrapper: self._redis.rpush(input_key, str(args))
StoreRpushIn(c) ==
    /\ pc[c] = "rpush_in"
    /\ LET r == RedisRpush(db, Utf8Encode(InputKey), RedisEncode(PyStrVal(StrTuple(args[c])))) IN
       /\ db' = r.db
       /\ IF r.ok
          THEN pc' = [pc EXCEPT ![c] = "set"] /\ UNCHANGED ret
          ELSE Raise(c, "ResponseError")
    /\ UNCHANGED <<uuids, args, kwargs, key, calls, failed, flushedMidCall>>

\* the parameter data of store, bound from the positional or keyword argument
DataOf(a, kw) == IF a # <<>> THEN a[1] ELSE kw[1]

\* mutant of StoreSet: the value is written as str(data)
StoreSetStr(c) ==
    /\ pc[c] = "set"
    /\ \E u \in UUIDs \ uuids :
        LET k == UuidStr(u)
            r == RedisSet(db, Utf8Encode(k),
                          RedisEncode(PyStrVal(PyStr(DataOf(args[c], kwargs[c])))))
        IN /\ uuids' = uuids \cup {u}
           /\ key' = [key EXCEPT ![c] = k]
           /\ db' = r.db
           /\ pc' = [pc EXCEPT ![c] = "rpush_out"]
    /\ UNCHANGED <<args, kwargs, ret, calls, failed, flushedMidCall>>

\* Cache.store: key = str(uuid.uuid4()); self._redis.set(key, data)
StoreSet(c) ==
    /\ pc[c] = "set"
    /\ \E u \in UUIDs \ uuids :
        LET k == UuidStr(u)
            r == RedisSet(db, Utf8Encode(k), RedisEncode(DataOf(args[c], kwargs[c])))
        IN /\ uuids' = uuids \cup {u}
           /\ key' = [key EXCEPT ![c] = k]
           /\ db' = r.db
           /\ pc' = [pc EXCEPT ![c] = "rpush_out"]
    /\ UNCHANGED <<args, kwargs, ret, calls, failed, flushedMidCall>>

\* mutant of StoreRpushOut: the output is appended to the input log
StoreRpushOutToInputs(c) ==
    /\ pc[c] = "rpush_out"
    /\ db' = RedisRpush(db, Utf8Encode(InputKey), RedisEncode(PyStrVal(key[c]))).db
    /\ pc' = [pc EXCEPT ![c] = "idle"]
    /\ ret' = [ret EXCEPT ![c] = Result("store", <<>>, "None", PyStrVal(key[c]))]
    /\ calls' = Append(calls, [args |-> args[c], kwargs |-> kwargs[c], key |-> key[c]])
    /\ UNCHANGED <<uuids, args, kwargs, key, failed, flushedMidCall>>

\* call_history.wrapper: self._redis.rpush(output_key, str(output)); return
StoreRpushOut(c) ==
    /\ pc[c] = "rpush_out"
    /\ LET output == PyStrVal(key[c])
           r == RedisRpush(db, Utf8Encode(OutputKey), RedisEncode(PyStrVal(PyStr(output))))
       IN /\ db' = r.db
          /\ IF r.ok
             THEN /\ pc' = [pc EXCEPT ![c] = "idle"]
                  /\ ret' = [ret EXCEPT ![c] = Result("store", <<>>, "None", output)]
                  /\ calls' = Append(calls, [args |-> args[c], kwargs |-> kwargs[c],
                                             key |-> key[c]])
             ELSE Raise(c, "ResponseError") /\ UNCHANGED calls
    /\ UNCHANGED <<uuids, args, kwargs, key, failed, flushedMidCall>>

\* A command of the store call of c fails with a ConnectionError, which no
\* wrapper catches.  stage names the command; applied tells whether the
\* server had carried it out when the connection failed.
Fail(c, stage, applied, a, kw, k) ==
    /\ Len(failed) < MaxFailed
    /\ Raise(c, "ConnectionError")
    /\ failed' = Append(failed, [stage |-> stage, applied |-> applied,
                                 args |-> a, kwargs |-> kw, key |-> k])
    /\ UNCHANGED calls

\* count_calls.wrapper: self._redis.incr(key) fails
StoreIncrFail(c, a, kw, applied) ==
    /\ pc[c] = "idle"
    /\ db' = IF applied THEN RedisIncr(db, Utf8Encode(QualName)).db ELSE db
    /\ Fail(c, "incr", applied, a, kw, <<>>)
    /\ UNCHANGED <<uuids, args, kwargs, key, flushedMidCall>>

\* call_history.wrapper: self._redis.rpush(input_key, str(args)) fails
StoreRpushInFail(c, applied) ==
    /\ pc[c] = "rpush_in"
    /\ db' = IF applied
             THEN RedisRpush(db, Utf8Encode(InputKey),
                             RedisEncode(PyStrVal(StrTuple(args[c])))).db
             ELSE db
    /\ Fail(c, "rpush_in", applied, args[c], kwargs[c], <<>>)
    /\ UNCHANGED <<uuids, args, kwargs, key, flushedMidCall>>

\* mutant of StoreSetFail: the wrapper undoes its input entry and its count
StoreSetFailRollback(c, applied) ==
    /\ pc[c] = "set"
    /\ \E u \in UUIDs \ uuids :
        LET k == UuidStr(u)
            log == db[Utf8Encode(InputKey)].val
            d1 == Put(db, Utf8Encode(InputKey), RList(SubSeq(log, 1, Len(log) - 1)))
            d2 == RedisDecr(d1, Utf8Encode(QualName)).db
        IN /\ uuids' = uuids \cup {u}
           /\ key' = [key EXCEPT ![c] = k]
           /\ db' = d2
           /\ Fail(c, "set", applied, args[c], kwargs[c], k)
    /\ UNCHANGED <<args, kwargs, flushedMidCall>>

\* Cache.store: self._redis.set(key, data) fails
StoreSetFail(c, applied) ==
    /\ pc[c] = "set"
    /\ \E u \in UUIDs \ uuids :
        LET k == UuidStr(u) IN
        /\ uuids' = uuids \cup {u}
        /\ key' = [key EXCEPT ![c] = k]
        /\ db' = IF applied
                 THEN RedisSet(db, Utf8Encode(k),
                               RedisEncode(DataOf(args[c], kwargs[c]))).db
                 ELSE db
        /\ Fail(c, "set", applied, args[c], kwargs[c], k)
    /\ UNCHANGED <<args, kwargs, flushedMidCall>>

\* call_history.wrapper: self._redis.rpush(output_key, str(output)) fails
StoreRpushOutFail(c, applied) ==
    /\ pc[c] = "rpush_out"
    /\ db' = IF applied
             THEN RedisRpush(db, Utf8Encode(OutputKey),
                             RedisEncode(PyStrVal(PyStr(PyStrVal(key[c]))))).db
             ELSE db
    /\ Fail(c, "rpush_out", applied, args[c], kwargs[c], key[c])
    /\ UNCHANGED <<uuids, args, kwargs, key, flushedMidCall>>

\* "Cache.get"
GetQualName == <<67, 97, 99, 104, 101, 46, 103, 101, 116>>

\* mutant of Get: get is decorated with count_calls
GetCounted(c, k, fn) ==
    /\ pc[c] = "idle"
    /\ db' = RedisIncr(db, Utf8Encode(GetQualName)).db
    /\ ret' = [ret EXCEPT ![c] = Result("get", k, fn, PyGet(db, k, fn))]
    /\ UNCHANGED <<uuids, pc, args, kwargs, key, calls, failed, flushedMidCall>>

\* Cache.get(key, fn)
Get(c, k, fn) ==
    /\ pc[c] = "idle"
    /\ ret' = [ret EXCEPT ![c] = Result("get", k, fn, PyGet(db, k, fn))]
    /\ UNCHANGED <<db, uuids, pc, args, kwargs, key, calls, failed, flushedMidCall>>

\* Cache.get_str(key)
GetStr(c, k) ==
    /\ pc[c] = "idle"
    /\ ret' = [ret EXCEPT ![c] = Result("get_str", k, "utf8", PyGet(db, k, "utf8"))]
    /\ UNCHANGED <<db, uuids, pc, args, kwargs, key, calls, failed, flushedMidCall>>

\* mutant of GetInt: a value that is not an integer reads as 0
GetIntDefault0(c, k) ==
    /\ pc[c] = "idle"
    /\ LET x == PyGet(db, k, "int") IN
       ret' = [ret EXCEPT ![c] =
                  Result("get_int", k, "int",
                         IF x = Raised("ValueError") THEN PyIntVal(0) ELSE x)]
    /\ UNCHANGED <<db, uuids, pc, args, kwargs, key, calls, failed, flushedMidCall>>

\* Cache.get_int(key)
GetInt(c, k) ==
    /\ pc[c] = "idle"
    /\ ret' = [ret EXCEPT ![c] = Result("get_int", k, "int", PyGet(db, k, "int"))]
    /\ UNCHANGED <<db, uuids, pc, args, kwargs, key, calls, failed, flushedMidCall>>

\* the calls store(v) and store(data=v)
StoreCalls ==
    {<<(<<v>>), (<<>>)>> : v \in Values} \cup {<<(<<>>), (<<v>>)>> : v \in KwValues}

\* one client calls the operations one after the other
Next ==
    \/ \E c \in SeqClients : Initialize(c)
    \/ \E c \in SeqClients : \E sc \in StoreCalls : StoreIncr(c, sc[1], sc[2])
    \/ \E c \in SeqClients : StoreRpushIn(c)
    \/ \E c \in SeqClients : StoreSet(c)
    \/ \E c \in SeqClients : StoreRpushOut(c)
    \/ \E c \in SeqClients : \E k \in GetKeys : \E fn \in Decoders : Get(c, k, fn)
    \/ \E c \in SeqClients : \E k \in GetKeys : GetStr(c, k)
    \/ \E c \in SeqClients : \E k \in GetKeys : GetInt(c, k)

Spec == Init /\ [][Next]_vars

\* the store calls of the specification with failing commands:
\* store(b"\xff") and store(data=" 7")
FailCalls ==
    {<<(<<PyBytesVal(<<255>>)>>), (<<>>)>>, <<(<<>>), (<<PyStrVal(<<32, 55>>)>>)>>}

\* one client calls store and initializes; any command of store may fail
NextFail ==
    \/ \E c \in SeqClients : Initialize(c)
    \/ \E c \in SeqClients : \E sc \in FailCalls : StoreIncr(c, sc[1], sc[2])
    \/ \E c \in SeqClients : StoreRpushIn(c)
    \/ \E c \in SeqClients : StoreSet(c)
    \/ \E c \in SeqClients : StoreRpushOut(c)
    \/ \E c \in SeqClients : \E sc \in FailCalls : \E applied \in BOOLEAN :
          StoreIncrFail(c, sc[1], sc[2], applied)
    \/ \E c \in SeqClients : \E applied \in BOOLEAN : StoreRpushInFail(c, applied)
    \/ \E c \in SeqClients : \E applied \in BOOLEAN : StoreSetFail(c, applied)
    \/ \E c \in SeqClients : \E applied \in BOOLEAN : StoreRpushOutFail(c, applied)

SpecFail == Init /\ [][NextFail]_vars

\* the store calls of the concurrent specifications: store(b"\xff"), store(7)
ConcCalls == {<<(<<PyBytesVal(<<255>>)>>), (<<>>)>>, <<(<<PyIntVal(7)>>), (<<>>)>>}

\* several clients call store on the same database; every command is
\* atomic and the commands of different calls interleave
NextConc ==
    \/ \E c \in Clients : \E sc \in ConcCalls : StoreIncr(c, sc[1], sc[2])
    \/ \E c \in Clients : StoreRpushIn(c)
    \/ \E c \in Clients : StoreSet(c)
    \/ \E c \in Clients : StoreRpushOut(c)

SpecConc == Init /\ [][NextConc]_vars

\* as NextConc, and a client may construct a new Cache at any time
NextConcInit ==
    \/ \E c \in Clients : Initialize(c)
    \/ \E c \in Clients : \E sc \in ConcCalls : StoreIncr(c, sc[1], sc[2])
    \/ \E c \in Clients : StoreRpushIn(c)
    \/ \E c \in Clients : StoreSet(c)
    \/ \E c \in Clients : StoreRpushOut(c)

SpecConcInit == Init /\ [][NextConcInit]_vars

(***************************************************************************)
(* What a reader of the database sees.                                     *)
(***************************************************************************)
\* the value of the counter of store: 0 while the key is absent
CounterValue(d) ==
    LET k == Utf8Encode(QualName) IN
    IF k \in DOMAIN d THEN RedisParseInt(d[k].val).v ELSE 0

\* LRANGE k 0 -1: the empty list while the key is absent
LogOf(d, k) == IF Utf8Encode(k) \in DOMAIN d THEN d[Utf8Encode(k)].val ELSE <<>>
InputLog(d) == LogOf(d, InputKey)
OutputLog(d) == LogOf(d, OutputKey)

\* no store call is in progress
AllIdle == \A c \in Clients : pc[c] = "idle"

\* the keys returned by the store calls since the database was flushed
ReturnedKeys == {calls[i].key : i \in 1..Len(calls)}

(***************************************************************************)
(* C1: after initialization followed by N calls to store, with any get,    *)
(* get_str and get_int calls in between, the counter kept under            *)
(* "Cache.store" equals N.                                                 *)
(***************************************************************************)
C1_CounterEqualsCalls == AllIdle => CounterValue(db) = Len(calls)

C1_Witness ==
    /\ AllIdle
    /\ Len(calls) = 2
    /\ CounterValue(db) = 2
    /\ ret[1].op = "get_int"

(***************************************************************************)
(* C2: after initialization followed by N sequential calls to store, the   *)
(* input log and the output log each have length N and the i-th entry of   *)
(* the output log is the key returned by the i-th call.                    *)
(***************************************************************************)
C2_LogsRecordCalls ==
    AllIdle =>
        /\ Len(InputLog(db)) = Len(calls)
        /\ Len(OutputLog(db)) = Len(calls)
        /\ \A i \in 1..Len(calls) : OutputLog(db)[i] = Utf8Encode(calls[i].key)

C2_Witness ==
    /\ AllIdle
    /\ Len(calls) = 2
    /\ Len(OutputLog(db)) = 2
    /\ OutputLog(db)[1] = Utf8Encode(UuidStr(2))
    /\ OutputLog(db)[2] = Utf8Encode(UuidStr(1))

CanonicalBytes(x) ==
    IF x.t = "str" THEN Utf8Encode(x.v)
    ELSE IF x.t = "bytes" THEN x.v
    ELSE IF x.t = "int" THEN IntToDecimal(x.v[1])
    ELSE FloatRepr(x.v[1])

\* the value passed to the i-th store call that returned
DataOfCall(i) == DataOf(calls[i].args, calls[i].kwargs)

(***************************************************************************)
(* C4: get(store(v)) without a decoder returns the canonical byte encoding *)
(* of v, also after later store calls.                                     *)
(***************************************************************************)
C4_GetReturnsStoredBytes ==
    \A c \in Clients : \A i \in 1..Len(calls) :
        /\ (ret[c].op = "get" /\ ret[c].fn = "None" /\ ret[c].key = calls[i].key)
              => ret[c].val = PyBytesVal(CanonicalBytes(DataOfCall(i)))
        /\ PyGet(db, calls[i].key, "None") = PyBytesVal(CanonicalBytes(DataOfCall(i)))

C4_Witness ==
    /\ Len(calls) = 2
    /\ ret[1].op = "get" /\ ret[1].fn = "None"
    /\ ret[1].key = calls[1].key
    /\ DataOfCall(1) = PyFloatVal(15)
    /\ DataOfCall(2) = PyBytesVal(<<255>>)
    /\ ret[1].val = PyBytesVal(<<49, 46, 53>>)

InstrumentationKeys == {QualName, InputKey, OutputKey}

AllClear(d) ==
    /\ CounterValue(d) = 0
    /\ Utf8Encode(QualName) \notin DOMAIN d
    /\ InputLog(d) = <<>>
    /\ OutputLog(d) = <<>>
    /\ \A k \in GetKeys : \A fn \in Decoders : PyGet(d, k, fn) = PyNone

(***************************************************************************)
(* C6: immediately after an initialization the counter of store is absent, *)
(* both logs are empty and get returns None for every key, the keys of     *)
(* earlier store calls included.                                           *)
(***************************************************************************)
C6_InitializeClears == [][(\E c \in Clients : Initialize(c)) => AllClear(db')]_vars

C6_Witness ==
    /\ ret[1].op = "init"
    /\ Cardinality(uuids) = 2
    /\ AllClear(db)

(***************************************************************************)
(* C7: get_str(store(s)) returns s for every text s.                       *)
(***************************************************************************)
C7_GetStrRoundTrip ==
    \A c \in Clients : \A i \in 1..Len(calls) :
        (/\ ret[c].op = "get_str"
         /\ ret[c].key = calls[i].key
         /\ DataOfCall(i).t = "str") => ret[c].val = DataOfCall(i)

C7_Witness ==
    /\ Len(calls) = 1
    /\ DataOfCall(1) = PyStrVal(<<233>>)
    /\ ret[1].op = "get_str"
    /\ ret[1].key = calls[1].key
    /\ ret[1].val = PyStrVal(<<233>>)

(***************************************************************************)
(* C8: get_int(store(n)) returns n for every integer n, negative, zero or  *)
(* positive.                                                               *)
(***************************************************************************)
C8_GetIntRoundTrip ==
    \A c \in Clients : \A i \in 1..Len(calls) :
        (/\ ret[c].op = "get_int"
         /\ ret[c].key = calls[i].key
         /\ DataOfCall(i).t = "int") => ret[c].val = DataOfCall(i)

C8_Witness ==
    /\ Len(calls) = 2
    /\ DataOfCall(1) = PyIntVal(0 - 12)
    /\ DataOfCall(2) = PyIntVal(0)
    /\ ret[1].op = "get_int"
    /\ ret[1].key = calls[1].key
    /\ ret[1].val = PyIntVal(0 - 12)

(***************************************************************************)
(* A base-10 integer numeral as int() reads one: optional white space, an  *)
(* optional sign, decimal digits in which single underscores may separate  *)
(* digits, optional white space.                                           *)
(***************************************************************************)
IsBase10Integer(b) ==
    \E i \in 1..Len(b) : \E j \in i..Len(b) :
        /\ \A p \in 1..(i - 1) : IsSpace(b[p])
        /\ \A p \in (j + 1)..Len(b) : IsSpace(b[p])
        /\ LET first == IF b[i] \in {43, 45} THEN i + 1 ELSE i IN
           /\ first <= j
           /\ IsDigit(b[first])
           /\ IsDigit(b[j])
           /\ \A p \in first..j :
                \/ IsDigit(b[p])
                \/ (b[p] = 95 /\ IsDigit(b[p - 1]) /\ IsDigit(b[p + 1]))

\* key k holds bytes that are not a base-10 integer
HoldsNonInteger(d, k) ==
    /\ Utf8Encode(k) \in DOMAIN d
    /\ d[Utf8Encode(k)].type = "string"
    /\ ~IsBase10Integer(d[Utf8Encode(k)].val)

(***************************************************************************)
(* C9: when the bytes under a key are not a base-10 integer, get_int(key)  *)
(* raises the decode error (ValueError) to the caller and leaves the       *)
(* database, with its entries, counter and logs, unchanged: no step that   *)
(* gives another result for such a key, or changes the database, is a call *)
(* of get_int with that key.                                               *)
(***************************************************************************)
C9_GetIntRaises ==
    [][\A c \in Clients :
          (/\ ret'[c].op = "get_int"
           /\ (ret'[c].val # Raised("ValueError") \/ db' # db)
           /\ HoldsNonInteger(db, ret'[c].key)) => ~GetInt(c, ret'[c].key)]_vars

C9_Witness ==
    /\ Len(calls) = 1
    /\ DataOfCall(1) = PyStrVal(<<233>>)
    /\ ret[1].op = "get_int"
    /\ ret[1].key = calls[1].key
    /\ HoldsNonInteger(db, ret[1].key)
    /\ ret[1].val = Raised("ValueError")

(***************************************************************************)
(* C10 as stated: no step of initialize, store, get, get_str or get_int    *)
(* decreases the counter of store.                                         *)
(***************************************************************************)
C10_Original == [][CounterValue(db') >= CounterValue(db)]_vars

(***************************************************************************)
(* C10 as amended: no step of store, get, get_str or get_int decreases the *)
(* counter of store; initialize resets it to 0.                            *)
(***************************************************************************)
C10_CounterMonotonic ==
    [][IF \E c \in Clients : Initialize(c)
       THEN CounterValue(db') = 0
       ELSE CounterValue(db') >= CounterValue(db)]_vars

C10_Witness ==
    /\ CounterValue(db) = 1
    /\ Cardinality(uuids) = 2
    /\ Len(calls) = 1
    /\ ret[1].op = "store"

\* s is a prefix of t
IsPrefix(s, t) == Len(s) <= Len(t) /\ SubSeq(t, 1, Len(s)) = s

(***************************************************************************)
(* C11 as stated: across every step of initialize, store, get, get_str and *)
(* get_int, each log before the step is a prefix of the log after it.      *)
(***************************************************************************)
C11_Original ==
    [][/\ IsPrefix(InputLog(db), InputLog(db'))
       /\ IsPrefix(OutputLog(db), OutputLog(db'))]_vars

(***************************************************************************)
(* C11 as amended: across every step of store, get, get_str and get_int,   *)
(* each log before the step is a prefix of the log after it; a step of     *)
(* initialize empties both logs.                                           *)
(***************************************************************************)
C11_LogsAppendOnly ==
    [][IF \E c \in Clients : Initialize(c)
       THEN InputLog(db') = <<>> /\ OutputLog(db') = <<>>
       ELSE \/ db' = db
            \/ /\ IsPrefix(InputLog(db), InputLog(db'))
               /\ IsPrefix(OutputLog(db), OutputLog(db'))]_vars

C11_Witness ==
    /\ AllIdle
    /\ Len(calls) = 2
    /\ Len(InputLog(db)) = 2
    /\ Len(OutputLog(db)) = 2
    /\ InputLog(db)[1] # InputLog(db)[2]

\* the entries of the database: the keys that are neither counter nor log
Entries(d) ==
    DOMAIN d \ {Utf8Encode(QualName), Utf8Encode(InputKey), Utf8Encode(OutputKey)}

(***************************************************************************)
(* C12: within one store call the effects happen in the order counter      *)
(* increment, append to the input log, write of the value under the fresh  *)
(* key, append of the key to the output log.  With n calls returned        *)
(* before: when the input append is next only the counter is n + 1; when   *)
(* the write is next the input log has n + 1 entries too and no value is   *)
(* written; when the output append is next the value is written and the    *)
(* output log still has n entries.                                         *)
(***************************************************************************)
C12_StoreStepOrder ==
    \A c \in SeqClients :
        LET n == Len(calls) IN
        /\ pc[c] = "rpush_in" =>
              /\ CounterValue(db) = n + 1
              /\ Len(InputLog(db)) = n
              /\ Cardinality(Entries(db)) = n
              /\ Len(OutputLog(db)) = n
        /\ pc[c] = "set" =>
              /\ CounterValue(db) = n + 1
              /\ Len(InputLog(db)) = n + 1
              /\ InputLog(db)[n + 1] = Utf8Encode(StrTuple(args[c]))
              /\ Cardinality(Entries(db)) = n
              /\ Len(OutputLog(db)) = n
        /\ pc[c] = "rpush_out" =>
              /\ CounterValue(db) = n + 1
              /\ Len(InputLog(db)) = n + 1
              /\ Cardinality(Entries(db)) = n + 1
              /\ Utf8Encode(key[c]) \in Entries(db)
              /\ Len(OutputLog(db)) = n
              /\ \A i \in 1..n : OutputLog(db)[i] # Utf8Encode(key[c])

C12_Witness ==
    /\ pc[1] = "rpush_out"
    /\ Len(calls) = 1
    /\ CounterValue(db) = 2
    /\ Len(InputLog(db)) = 2
    /\ Len(OutputLog(db)) = 1
    /\ Cardinality(Entries(db)) = 2

\* the number of failed store calls that satisfy P
CountFailed(P(_)) == Cardinality({i \in 1..Len(failed) : P(failed[i])})

\* what a failed call had done before its command failed
DidIncr(f) == f.stage # "incr" \/ f.applied
DidRpushIn(f) == f.stage \in {"set", "rpush_out"} \/ (f.stage = "rpush_in" /\ f.applied)
DidSet(f) == f.stage = "rpush_out" \/ (f.stage = "set" /\ f.applied)
DidRpushOut(f) == f.stage = "rpush_out" /\ f.applied

(***************************************************************************)
(* C13: a failing command of a store call raises to the caller and nothing *)
(* already done is undone.  Between calls the counter, the input log, the  *)
(* entries and the output log hold what the returned calls did plus what   *)
(* each failed call had done before its failure: a failed value write      *)
(* leaves its count and its input entry and no output entry, a failed      *)
(* output append leaves also the value under the generated key, and that   *)
(* key is not returned.                                                    *)
(***************************************************************************)
C13_NoRollback ==
    /\ \A c \in SeqClients :
          (pc[c] = "idle" /\ ret[c].op = "store") =>
              \/ (IsRaised(ret[c].val) /\ failed # <<>>)
              \/ (calls # <<>> /\ ret[c].val = PyStrVal(calls[Len(calls)].key))
    /\ AllIdle =>
          /\ CounterValue(db) = Len(calls) + CountFailed(DidIncr)
          /\ Len(InputLog(db)) = Len(calls) + CountFailed(DidRpushIn)
          /\ Cardinality(Entries(db)) = Len(calls) + CountFailed(DidSet)
          /\ Len(OutputLog(db)) = Len(calls) + CountFailed(DidRpushOut)
          /\ \A i \in 1..Len(failed) :
                LET f == failed[i] IN
                /\ f.key \notin ReturnedKeys
                /\ DidSet(f) =>
                      /\ Utf8Encode(f.key) \in DOMAIN db
                      /\ db[Utf8Encode(f.key)] = RString(RedisEncode(DataOf(f.args, f.kwargs)))
                /\ (f.stage = "set") =>
                      \A j \in 1..Len(OutputLog(db)) : OutputLog(db)[j] # Utf8Encode(f.key)

C13_Witness ==
    /\ AllIdle
    /\ Len(failed) = 2
    /\ failed[1].stage = "set" /\ ~failed[1].applied
    /\ failed[2].stage = "rpush_out" /\ ~failed[2].applied
    /\ ret[1].val = Raised("ConnectionError")
    /\ CounterValue(db) = 2
    /\ Len(InputLog(db)) = 2
    /\ OutputLog(db) = <<>>
    /\ Cardinality(Entries(db)) = 1

GetOps == {"get", "get_str", "get_int"}

\* c calls get, get_str or get_int with key k
GetCall(c, k) == (\E fn \in Decoders : Get(c, k, fn)) \/ GetStr(c, k) \/ GetInt(c, k)

(***************************************************************************)
(* C14: when the key is absent get returns None whatever decoder is given, *)
(* so get_str and get_int on an absent key return None and raise nothing:  *)
(* no step that leaves a client with another result than None for a key    *)
(* absent before the step is a call of get, get_str or get_int.            *)
(***************************************************************************)
C14_AbsentReturnsNone ==
    [][\A c \in Clients :
          (/\ ret'[c].op \in GetOps
           /\ Utf8Encode(ret'[c].key) \notin DOMAIN db
           /\ ret'[c].val # PyNone) => ~GetCall(c, ret'[c].key)]_vars

C14_Witness ==
    /\ Len(calls) = 1
    /\ ret[1].op = "get_int"
    /\ ret[1].key = OtherKey
    /\ Utf8Encode(OtherKey) \notin DOMAIN db
    /\ ret[1].val = PyNone

C19_GetsReadOnly ==
    [][\A c \in Clients :
          (/\ ret'[c].op \in GetOps
           /\ (db' # db \/ calls' # calls \/ uuids' # uuids))
              => ~GetCall(c, ret'[c].key)]_vars

C19_Witness ==
    /\ Len(calls) = 2
    /\ ret[1].op = "get_str"
    /\ ret[1].val = Raised("UnicodeDecodeError")
    /\ CounterValue(db) = 2
    /\ Len(InputLog(db)) = 2
    /\ Len(OutputLog(db)) = 2
    /\ DOMAIN db = {Utf8Encode(k) : k \in ReturnedKeys \cup InstrumentationKeys}

(***************************************************************************)
(* C16: when several clients call store concurrently, once all calls have  *)
(* returned the i-th entry of the output log is the key returned by the    *)
(* invocation that appended the i-th entry of the input log: some returned *)
(* call has that key and that input text.                                  *)
(***************************************************************************)
C16_PairedUnderConcurrency ==
    AllIdle =>
        /\ Len(InputLog(db)) = Len(OutputLog(db))
        /\ \A i \in 1..Len(OutputLog(db)) :
              \E j \in 1..Len(calls) :
                  /\ OutputLog(db)[i] = Utf8Encode(calls[j].key)
                  /\ InputLog(db)[i] = Utf8Encode(StrTuple(calls[j].args))

(***************************************************************************)
(* C17: when several clients run N store calls concurrently with no        *)
(* initialization in between, once all have returned the counter is N,     *)
(* both logs have length N and the entries of the output log are exactly   *)
(* the N returned keys.                                                    *)
(***************************************************************************)
C17_NothingLost ==
    AllIdle =>
        /\ CounterValue(db) = Len(calls)
        /\ Len(InputLog(db)) = Len(calls)
        /\ Len(OutputLog(db)) = Len(calls)
        /\ Cardinality(ReturnedKeys) = Len(calls)
        /\ {OutputLog(db)[i] : i \in 1..Len(OutputLog(db))}
              = {Utf8Encode(k) : k \in ReturnedKeys}

\* the call that returned second appended its input first
C17_Witness ==
    /\ AllIdle
    /\ Len(calls) = 2
    /\ CounterValue(db) = 2
    /\ InputLog(db)[1] = Utf8Encode(StrTuple(calls[2].args))
    /\ InputLog(db)[2] = Utf8Encode(StrTuple(calls[1].args))
    /\ InputLog(db)[1] # InputLog(db)[2]

\* length(output log) <= length(input log) <= counter
LogsWithinCounter(d) ==
    /\ Len(OutputLog(d)) <= Len(InputLog(d))
    /\ Len(InputLog(d)) <= CounterValue(d)

(***************************************************************************)
(* C18 as stated: in every reachable state, states in the middle of a      *)
(* store call and interleavings with the initialization of another Cache   *)
(* included, length(output log) <= length(input log) <= counter.           *)
(***************************************************************************)
C18_Original == LogsWithinCounter(db)

(***************************************************************************)
(* C18 as amended: the same, in every reachable state in which the         *)
(* database has not been flushed by an initialization while a store call   *)
(* was in progress.                                                        *)
(***************************************************************************)
C18_LogsWithinCounter == ~flushedMidCall => LogsWithinCounter(db)

C18_Witness ==
    /\ ~flushedMidCall
    /\ Cardinality(uuids) = 1
    /\ calls = <<>>
    /\ \E c \in Clients : pc[c] = "rpush_in"
    /\ \E c \in Clients : pc[c] = "idle" /\ ret[c].op = "init"
    /\ CounterValue(db) = 1
    /\ InputLog(db) = <<>>

====
